---- MODULE Spec2Model ----
(***************************************************************************)
(* frontend/src/environments/environment.ts                                *)
(*                                                                         *)
(* The file is one statement: `export const environment = { ... }`.        *)
(* Evaluating the module evaluates the object literal, property by         *)
(* property in source order, and then initialises the exported binding.    *)
(* The file imports nothing, so it is evaluated to completion before any   *)
(* module that imports it runs; importers then read properties through     *)
(* the binding.  The literal carries no Object.freeze, no `readonly` and   *)
(* no `as const`, so the properties of the object stay writable.           *)
(*                                                                         *)
(* Strings are sequences of one-character strings, objects are functions   *)
(* from property paths to values.                                          *)
(***************************************************************************)
EXTENDS Integers, Sequences, FiniteSets, TLC

\* ------------------------------------------------------------------ bounds
NumReaders == 3
MaxReads == 4
MaxWrites == 1

Readers == 1..NumReaders

\* ----------------------------------------------------- the object literal
\* The six properties of the literal, in the order the source lists them.
Paths ==
  <<"production", "apiServerUrl", "auth0.url", "auth0.audience",
    "auth0.clientId", "auth0.callbackURL">>

PathSet == {Paths[i] : i \in 1..Len(Paths)}

StringPaths == PathSet \ {"production"}

\* environment.ts with auth0.callbackURL left as the empty string.
environmentEmptyCallback ==
  [p \in PathSet |->
     CASE p = "production"        -> FALSE
       [] p = "apiServerUrl"      -> <<"h","t","t","p",":","/","/","1","2","7",".","0",".","0",".","1",":","5","0","0","0">>
       [] p = "auth0.url"         -> <<"m","i","k","i","l","a","d","e",".","u","s">>
       [] p = "auth0.audience"    -> <<"h","t","t","p","s",":","/","/","c","s","f","s","a","u","t","h">>
       [] p = "auth0.clientId"    -> <<"3","3","4","z","M","e","a","b","2","p","Y","s","T","n","t","0","c","l","8","H","I","m","U","C","h","0","Z","l","n","5","J","X">>
       [] p = "auth0.callbackURL" -> <<>>]

\* environment.ts with the scheme of apiServerUrl dropped.
environmentNoScheme ==
  [p \in PathSet |->
     CASE p = "production"        -> FALSE
       [] p = "apiServerUrl"      -> <<"1","2","7",".","0",".","0",".","1",":","5","0","0","0">>
       [] p = "auth0.url"         -> <<"m","i","k","i","l","a","d","e",".","u","s">>
       [] p = "auth0.audience"    -> <<"h","t","t","p","s",":","/","/","c","s","f","s","a","u","t","h">>
       [] p = "auth0.clientId"    -> <<"3","3","4","z","M","e","a","b","2","p","Y","s","T","n","t","0","c","l","8","H","I","m","U","C","h","0","Z","l","n","5","J","X">>
       [] p = "auth0.callbackURL" -> <<"h","t","t","p",":","/","/","l","o","c","a","l","h","o","s","t",":","8","1","0","0">>]

\* environment.ts with another client id.
environmentOtherClient ==
  [p \in PathSet |->
     CASE p = "production"        -> FALSE
       [] p = "apiServerUrl"      -> <<"h","t","t","p",":","/","/","1","2","7",".","0",".","0",".","1",":","5","0","0","0">>
       [] p = "auth0.url"         -> <<"m","i","k","i","l","a","d","e",".","u","s">>
       [] p = "auth0.audience"    -> <<"h","t","t","p","s",":","/","/","c","s","f","s","a","u","t","h">>
       [] p = "auth0.clientId"    -> <<"p","r","o","d","C","l","i","e","n","t">>
       [] p = "auth0.callbackURL" -> <<"h","t","t","p",":","/","/","l","o","c","a","l","h","o","s","t",":","8","1","0","0">>]

\* environment.ts with the production flag set.
environmentProductionSet ==
  [p \in PathSet |->
     CASE p = "production"        -> TRUE
       [] p = "apiServerUrl"      -> <<"h","t","t","p",":","/","/","1","2","7",".","0",".","0",".","1",":","5","0","0","0">>
       [] p = "auth0.url"         -> <<"m","i","k","i","l","a","d","e",".","u","s">>
       [] p = "auth0.audience"    -> <<"h","t","t","p","s",":","/","/","c","s","f","s","a","u","t","h">>
       [] p = "auth0.clientId"    -> <<"3","3","4","z","M","e","a","b","2","p","Y","s","T","n","t","0","c","l","8","H","I","m","U","C","h","0","Z","l","n","5","J","X">>
       [] p = "auth0.callbackURL" -> <<"h","t","t","p",":","/","/","l","o","c","a","l","h","o","s","t",":","8","1","0","0">>]

\* The object literal of environment.ts (the development variant).
environmentLiteral ==
  [p \in PathSet |->
     CASE p = "production"        -> FALSE
       [] p = "apiServerUrl"      -> <<"h","t","t","p",":","/","/","1","2","7",".","0",".","0",".","1",":","5","0","0","0">>
       [] p = "auth0.url"         -> <<"m","i","k","i","l","a","d","e",".","u","s">>
       [] p = "auth0.audience"    -> <<"h","t","t","p","s",":","/","/","c","s","f","s","a","u","t","h">>
       [] p = "auth0.clientId"    -> <<"3","3","4","z","M","e","a","b","2","p","Y","s","T","n","t","0","c","l","8","H","I","m","U","C","h","0","Z","l","n","5","J","X">>
       [] p = "auth0.callbackURL" -> <<"h","t","t","p",":","/","/","l","o","c","a","l","h","o","s","t",":","8","1","0","0">>]

\* The production variant is not part of the source tree; it follows the
\* specification: the production flag set, every string non-empty, the two
\* URLs absolute.
productionLiteral ==
  [p \in PathSet |->
     CASE p = "production"        -> TRUE
       [] p = "apiServerUrl"      -> <<"h","t","t","p","s",":","/","/","a","p","i",".","p","r","o","d">>
       [] p = "auth0.url"         -> <<"p","r","o","d">>
       [] p = "auth0.audience"    -> <<"h","t","t","p","s",":","/","/","p","r","o","d","a","u","t","h">>
       [] p = "auth0.clientId"    -> <<"p","r","o","d","C","l","i","e","n","t">>
       [] p = "auth0.callbackURL" -> <<"h","t","t","p","s",":","/","/","a","p","p",".","p","r","o","d">>]

\* The variants a build can select.
Variants == {environmentLiteral, productionLiteral}

\* The header comment asks for the values to be replaced per project: the
\* literals a deployment may put in the file, well-formed or not.
SuppliedLiterals ==
  {environmentLiteral, environmentEmptyCallback, environmentNoScheme,
   environmentOtherClient, environmentProductionSet}

\* ------------------------------------------------------------------- state
VARIABLES
  literal,      \* the object literal compiled into the module
  pc,           \* number of properties of the literal evaluated so far
  phase,        \* "loading" until the exported binding is initialised
  environment,  \* the object the binding refers to (partial while loading)
  obs,          \* per reader, the records its reads returned, in order
  writes        \* number of property assignments made by consumers

vars == <<literal, pc, phase, environment, obs, writes>>

EmptyObject == [p \in {} |-> FALSE]

InitWith(lits) ==
  /\ literal \in lits
  /\ pc = 0
  /\ phase = "loading"
  /\ environment = EmptyObject
  /\ obs = [r \in Readers |-> <<>>]
  /\ writes = 0

Init == InitWith({environmentLiteral})

\* ----------------------------------------------------------------- actions
\* A plausible slip: the client id pasted from the other variant's file.
EvaluatePropertyMixed ==
  /\ phase = "loading"
  /\ pc < Len(Paths)
  /\ LET p == Paths[pc + 1]
         src == IF p = "auth0.clientId" /\ literal = environmentLiteral
                THEN productionLiteral ELSE literal
     IN environment' = [q \in DOMAIN environment \cup {p} |->
                          IF q = p THEN src[p] ELSE environment[q]]
  /\ pc' = pc + 1
  /\ UNCHANGED <<literal, phase, obs, writes>>

\* A plausible slip: construction that validates and refuses empty strings.
EvaluatePropertyValidating ==
  /\ phase = "loading"
  /\ pc < Len(Paths)
  /\ LET p == Paths[pc + 1]
     IN /\ p \in StringPaths => Len(literal[p]) > 0
        /\ environment' = [q \in DOMAIN environment \cup {p} |->
                             IF q = p THEN literal[p] ELSE environment[q]]
  /\ pc' = pc + 1
  /\ UNCHANGED <<literal, phase, obs, writes>>

\* Evaluation of the next property definition of the object literal.
EvaluateProperty ==
  /\ phase = "loading"
  /\ pc < Len(Paths)
  /\ LET p == Paths[pc + 1]
     IN environment' = [q \in DOMAIN environment \cup {p} |->
                          IF q = p THEN literal[p] ELSE environment[q]]
  /\ pc' = pc + 1
  /\ UNCHANGED <<literal, phase, obs, writes>>

\* The literal is complete: `export const environment = ...` initialises the
\* binding, and importers may run from here on.
InitializeBinding ==
  /\ phase = "loading"
  /\ pc = Len(Paths)
  /\ phase' = "constructed"
  /\ UNCHANGED <<literal, pc, environment, obs, writes>>

\* A plausible slip: a read that does not wait for the module's evaluation.
ReadEarly(r) ==
  /\ Len(obs[r]) < MaxReads
  /\ obs' = [obs EXCEPT ![r] = Append(@, environment)]
  /\ UNCHANGED <<literal, pc, phase, environment, writes>>

\* A plausible slip: an accessor that re-evaluates the module on each read.
ReadReloading(r) ==
  /\ phase = "constructed"
  /\ Len(obs[r]) < MaxReads
  /\ obs' = [obs EXCEPT ![r] = Append(@, environment)]
  /\ phase' = "loading"
  /\ pc' = 0
  /\ environment' = EmptyObject
  /\ UNCHANGED <<literal, writes>>

\* An importer reads the properties of `environment`.
Read(r) ==
  /\ phase = "constructed"
  /\ Len(obs[r]) < MaxReads
  /\ obs' = [obs EXCEPT ![r] = Append(@, environment)]
  /\ UNCHANGED <<literal, pc, phase, environment, writes>>

\* The values an assignment can store in a property, by the property's type.
WriteValues(p) ==
  IF p = "production" THEN BOOLEAN ELSE {<<>>, <<"x">>}

\* A holder of the reference assigns to a property: the literal is neither
\* frozen nor readonly, so the assignment type-checks and takes effect.
Write(p, v) ==
  /\ phase = "constructed"
  /\ writes < MaxWrites
  /\ environment' = [environment EXCEPT ![p] = v]
  /\ writes' = writes + 1
  /\ UNCHANGED <<literal, pc, phase, obs>>

\* ---------------------------------------------------------- specifications
Next ==
  \/ EvaluateProperty
  \/ InitializeBinding
  \/ \E r \in Readers : Read(r)

\* The module and the importers that read it.
Spec == Init /\ [][Next]_vars

NextRW ==
  \/ Next
  \/ \E p \in PathSet : \E v \in WriteValues(p) : Write(p, v)

\* The module, importers that read it and a holder that assigns to it.
SpecRW == Init /\ [][NextRW]_vars

\* The module built from either variant.
SpecVariants == InitWith(Variants) /\ [][Next]_vars

\* The module with any supplied literal.
SpecAny == InitWith(SuppliedLiterals) /\ [][Next]_vars

\* -------------------------------------------------------------- URL syntax
Letters ==
  {"a","b","c","d","e","f","g","h","i","j","k","l","m","n","o","p","q","r","s","t","u","v","w","x","y","z",
   "A","B","C","D","E","F","G","H","I","J","K","L","M","N","O","P","Q","R","S","T","U","V","W","X","Y","Z"}

Digits == {"0","1","2","3","4","5","6","7","8","9"}

AllIn(s, chars) == \A i \in 1..Len(s) : s[i] \in chars

\* A scheme: a letter, then letters, digits, "+", "-" or ".".
IsScheme(s) ==
  /\ Len(s) >= 1
  /\ s[1] \in Letters
  /\ AllIn(s, Letters \cup Digits \cup {"+", "-", "."})

\* A non-empty host, optionally followed by ":" and a non-empty port.
IsHostPort(a) ==
  \E k \in 1..Len(a) :
    /\ AllIn(SubSeq(a, 1, k), Letters \cup Digits \cup {".", "-"})
    /\ \/ k = Len(a)
       \/ /\ k + 2 <= Len(a)
          /\ a[k + 1] = ":"
          /\ AllIn(SubSeq(a, k + 2, Len(a)), Digits)

\* scheme "://" host [":" port]
IsAbsoluteUrl(s) ==
  \E i \in 2..(Len(s) - 3) :
    /\ SubSeq(s, i, i + 2) = <<":", "/", "/">>
    /\ IsScheme(SubSeq(s, 1, i - 1))
    /\ IsHostPort(SubSeq(s, i + 3, Len(s)))

UrlPaths == {"apiServerUrl", "auth0.callbackURL"}

\* ------------------------------------------------------------------ claims
\* Every record a read has returned so far.
Observed == UNION {{obs[r][i] : i \in 1..Len(obs[r])} : r \in Readers}

\* A reader that has read at least twice.
ReadTwice == \E r \in Readers : Len(obs[r]) >= 2

\* C1: once the binding is initialised, every property of the object keeps
\* the value the literal gave it, whatever the holders of the reference do.
C1_Immutable ==
  phase = "constructed" => environment = literal

\* C2: any two reads, by any readers and with anything in between, return
\* records that are equal property by property.
C2_ReadsAgree ==
  \A a \in Observed : \A b \in Observed : a = b

\* C3: in the development build every read returns apiServerUrl
\* "http://127.0.0.1:5000" and auth0.clientId
\* "334zMeab2pYsTnt0cl8HImUCh0Zln5JX", the first read and every later one.
C3_DevelopmentValues ==
  \A o \in Observed :
    /\ o["apiServerUrl"] =
         <<"h","t","t","p",":","/","/","1","2","7",".","0",".","0",".","1",":","5","0","0","0">>
    /\ o["auth0.clientId"] =
         <<"3","3","4","z","M","e","a","b","2","p","Y","s","T","n","t","0","c","l","8","H","I","m","U","C","h","0","Z","l","n","5","J","X">>

C3_Witness ==
  /\ literal = environmentLiteral
  /\ ReadTwice

C6_StringsNonEmpty ==
  /\ \A p \in StringPaths \cap DOMAIN environment : Len(environment[p]) >= 1
  /\ phase = "constructed" => DOMAIN environment = PathSet
  /\ \A o \in Observed : \A p \in StringPaths : Len(o[p]) >= 1

C6_Witness ==
  /\ phase = "constructed"
  /\ StringPaths \subseteq DOMAIN environment
  /\ \E r \in Readers : Len(obs[r]) >= 1

\* C7: apiServerUrl and auth0.callbackURL are absolute URLs (a scheme,
\* "://", a non-empty host and optionally a port), in the object and in
\* every record read from it.
C7_UrlsAbsolute ==
  /\ \A p \in UrlPaths \cap DOMAIN environment : IsAbsoluteUrl(environment[p])
  /\ phase = "constructed" => UrlPaths \subseteq DOMAIN environment
  /\ \A o \in Observed : \A p \in UrlPaths : IsAbsoluteUrl(o[p])

C7_Witness ==
  /\ phase = "constructed"
  /\ UrlPaths \subseteq DOMAIN environment
  /\ \E r \in Readers : Len(obs[r]) >= 3

\* A string property of the literal is empty, or one of its URLs malformed.
Misconfigured ==
  \/ \E p \in StringPaths : Len(literal[p]) = 0
  \/ \E p \in UrlPaths : ~IsAbsoluteUrl(literal[p])

\* C8: no validation and no failure: whatever literal is supplied, empty or
\* malformed strings included, evaluation of the module always proceeds to
\* completion, the constructed object is the supplied literal unchanged, a
\* read is never refused and returns the supplied literal, and nothing but
\* the reader's own record changes.
C8_NoValidation ==
  /\ phase = "loading" => ENABLED (EvaluateProperty \/ InitializeBinding)
  /\ phase = "constructed" =>
       /\ environment = literal
       /\ pc = Len(Paths)
       /\ \A r \in Readers : Len(obs[r]) < MaxReads => ENABLED Read(r)
  /\ \A o \in Observed : o = literal

C8_Witness ==
  /\ Misconfigured
  /\ phase = "constructed"
  /\ environment = literal
  /\ \E r \in Readers : Len(obs[r]) >= 1 /\ obs[r][1] = literal

\* C9: no read happens before all six properties are assigned and the
\* binding initialised, and every read of every reader returns the same
\* complete record.
C9_InitializedBeforeRead ==
  /\ phase = "loading" => \A r \in Readers : obs[r] = <<>>
  /\ \A o \in Observed : DOMAIN o = PathSet
  /\ \A a \in Observed : \A b \in Observed :
       \A p \in PathSet : a[p] = b[p]

C9_Witness ==
  /\ \A r \in Readers : Len(obs[r]) >= 1
  /\ \E r \in Readers : Len(obs[r]) >= 2

\* C10: once constructed the provider stays constructed and readable: no
\* step leaves that state, a read completes in the one step it takes, and a
\* read is never blocked.
C10_OneState ==
  [][phase = "constructed" =>
       /\ phase' = "constructed"
       /\ pc' = pc
       /\ \A r \in Readers :
            \/ obs'[r] = obs[r]
            \/ Len(obs'[r]) = Len(obs[r]) + 1
       /\ \A r \in Readers : Len(obs[r]) < MaxReads => ENABLED Read(r)]_vars

C10_Witness ==
  /\ phase = "constructed"
  /\ \A r \in Readers : Len(obs[r]) = MaxReads

====
